---- MODULE Spec2Model ----
(***************************************************************************)
(* Model of metro_navigator.py: build_metro_graph (station records to a    *)
(* weighted graph) and dijkstra (shortest travel time with disabled        *)
(* stations).                                                              *)
(*                                                                         *)
(* Numbers.  Python floats are modelled by integers in fixed units:        *)
(*   coordinates   hundredths of a degree   (3570 is 35.70 degrees)        *)
(*   distances     metres                                                  *)
(*   times         thousandths of a minute                                 *)
(* None is the empty sequence and a present value v is <<v>>.              *)
(***************************************************************************)
EXTENDS Integers, Sequences, FiniteSets, TLC

\* ------------------------------------------------------------------ bounds

\* Largest number of disabled stations handed to one dijkstra call.
MaxDisabled == 2

\* Latitudes of the two-station datasets are 35.70 + i/100 degrees, i in 0..MaxOffset.
MaxOffset == 1

\* ------------------------------------------------------- program constants

EARTH_RADIUS_KM == 6371

\* Defaults of build_metro_graph's parameters.
TRAIN_SPEED_KMPH == 40

LINE_CHANGE_PENALTY_MINUTES == 4

\* float('inf'): a value no finite distance equals; compared only through
\* FloatLess and FloatGreater.
INF == -1

\* ------------------------------------------------------------------ values

None == <<>>

Some(v) == <<v>>

Range(s) == {s[i] : i \in DOMAIN s}

\* str comparison of the identifiers used here (Python compares the node names
\* when two heap tuples have equal distances).
Rank == [W |-> 1, X |-> 2, Y |-> 3, Z |-> 4, Q |-> 5]

\* Iteration order of a dict or list whose members are S: the datasets list
\* their stations and relations alphabetically.
RECURSIVE IterationOrder(_)
IterationOrder(S) ==
    IF S = {} THEN <<>>
    ELSE LET m == CHOOSE x \in S : \A y \in S : Rank[x] <= Rank[y]
         IN <<m>> \o IterationOrder(S \ {m})

\* {} and d[k] = v on dicts, which are functions.
EmptyDict == <<>>

DictSet(d, k, v) == [x \in (DOMAIN d) \cup {k} |-> IF x = k THEN v ELSE d[x]]

\* A coordinate field of a station record as the JSON loader delivers it.
Absent == [kind |-> "absent", val |-> 0]

Null == [kind |-> "null", val |-> 0]

BadStr == [kind |-> "badstr", val |-> 0]

Num(v) == [kind |-> "num", val |-> v]

NumStr(v) == [kind |-> "numstr", val |-> v]

\* float(x) raises TypeError on None and ValueError on a string that is no number.
FloatRaises(x) == x.kind \in {"null", "badstr"}

FloatError(x) == IF x.kind = "null" THEN "TypeError" ELSE "ValueError"

float(x) == x.val

\* -------------------------------------------------------- haversine_distance

Abs(n) == IF n < 0 THEN -n ELSE n

\* Great-circle distance in metres.  On one meridian (lon1 = lon2) the formula
\* gives a = sin^2(dlat/2) and c = |dlat| in radians, so the distance is
\* EARTH_RADIUS_KM * |dlat| * pi/180; pi is taken as 355/113.  The datasets of
\* this model keep every station on one meridian.
haversine_distance(lat1, lon1, lat2, lon2) ==
    CASE lon1 = lon2 ->
        (EARTH_RADIUS_KM * 355 * Abs(lat2 - lat1)) \div (113 * 18)

\* -------------------------------------------------------- build_metro_graph

\* float(data[key]) if key in data else None
coordinate(field) == IF field.kind = "absent" THEN None ELSE Some(float(field))

station_detail(data) ==
    [latitude |-> coordinate(data.latitude),
     longitude |-> coordinate(data.longitude),
     lines |-> data.lines]

\* The first loop: one empty neighbor map and one detail entry per station.
init_nodes_skipping_coordless(stations_data) ==
    [s \in {t \in DOMAIN stations_data :
              stations_data[t].latitude.kind # "absent"
              /\ stations_data[t].longitude.kind # "absent"} |-> EmptyDict]

init_nodes(stations_data) == [s \in DOMAIN stations_data |-> EmptyDict]

init_details(stations_data) ==
    [s \in DOMAIN stations_data |-> station_detail(stations_data[s])]

\* The conversions of the first loop that raise, in iteration order.
raising_fields(stations_data) ==
    LET order == IterationOrder(DOMAIN stations_data)
        fields(s) == <<stations_data[s].latitude, stations_data[s].longitude>>
        all == [i \in 1..(2 * Len(order)) |->
                   fields(order[(i + 1) \div 2])[2 - (i % 2)]]
    IN SelectSeq(all, FloatRaises)

travel_time(distance, train_speed_kmph) == (distance * 60) \div train_speed_kmph

needs_penalty_when_lines_differ(lines_station1, lines_station2) ==
    lines_station1 # lines_station2

needs_penalty(lines_station1, lines_station2) ==
    (lines_station1 \cap lines_station2) = {}

add_edge_one_way(graph, a, b, w) == [graph EXCEPT ![a] = DictSet(@, b, w)]

\* graph[a][b] = w, then graph[b][a] = w
add_edge(graph, a, b, w) ==
    LET g1 == [graph EXCEPT ![a] = DictSet(@, b, w)]
    IN [g1 EXCEPT ![b] = DictSet(@, a, w)]

\* The body of the inner loop for station a and one entry of its relations.
add_relation(graph, details, a, rel, speed, penalty) ==
    IF rel \notin DOMAIN details THEN graph
    ELSE LET lat1 == details[a].latitude
             lon1 == details[a].longitude
             lat2 == details[rel].latitude
             lon2 == details[rel].longitude
         IN IF lat1 = None \/ lon1 = None \/ lat2 = None \/ lon2 = None
            THEN graph
            ELSE LET distance == haversine_distance(lat1[1], lon1[1], lat2[1], lon2[1])
                     base == travel_time(distance, speed)
                     time == IF needs_penalty(details[a].lines, details[rel].lines)
                             THEN base + penalty * 1000
                             ELSE base
                 IN add_edge(graph, a, rel, time)

RECURSIVE add_relations(_, _, _, _, _, _)
add_relations(graph, details, a, rels, speed, penalty) ==
    IF rels = <<>> THEN graph
    ELSE add_relations(add_relation(graph, details, a, Head(rels), speed, penalty),
                       details, a, Tail(rels), speed, penalty)

\* The second loop over the stations.
RECURSIVE add_edges(_, _, _, _, _, _)
add_edges(graph, details, stations_data, order, speed, penalty) ==
    IF order = <<>> THEN graph
    ELSE LET a == Head(order)
             g == IF details[a].latitude = None \/ details[a].longitude = None
                  THEN graph
                  ELSE add_relations(graph, details, a,
                                     IterationOrder(stations_data[a].relations),
                                     speed, penalty)
         IN add_edges(g, details, stations_data, Tail(order), speed, penalty)

\* The whole function: what it returns, or the exception it raises.
build_metro_graph(stations_data, speed, penalty) ==
    LET bad == raising_fields(stations_data)
    IN IF bad # <<>>
       THEN [raised |-> FloatError(Head(bad)), graph |-> EmptyDict,
             station_details |-> EmptyDict]
       ELSE LET details == init_details(stations_data)
            IN [raised |-> "",
                graph |-> add_edges(init_nodes(stations_data), details, stations_data,
                                    IterationOrder(DOMAIN stations_data), speed, penalty),
                station_details |-> details]

\* ------------------------------------------------------------------ dijkstra

\* a < b and a > b on floats that may be float('inf'); a is always finite here.
FloatLess(a, b) == b = INF \/ a < b

FloatGreater(a, b) == b # INF /\ a > b

\* Order of the heap's tuples (time, node).
TupleLess(x, y) == x[1] < y[1] \/ (x[1] = y[1] /\ Rank[x[2]] < Rank[y[2]])

\* The priority queue is kept as the sequence of its entries in increasing
\* order: heappop returns its head, which is the least entry of the heap.
heappush_unordered(heap, item) == Append(heap, item)

heappush(heap, item) ==
    LET before == SelectSeq(heap, LAMBDA e : ~TupleLess(item, e))
        after == SelectSeq(heap, LAMBDA e : TupleLess(item, e))
    IN before \o <<item>> \o after

heappop_item(heap) == Head(heap)

heappop_rest(heap) == Tail(heap)

is_disabled_never(node, disabled_stations) == FALSE

\* node in disabled_stations, for the popped node
is_disabled(node, disabled_stations) == node \in disabled_stations

path_append(path, node) == Append(path, node)

\* path.insert(0, node)
path_insert_front(path, node) == <<node>> \o path

NoResult == [time |-> None, path |-> None]

\* The locals of one call after the lines before the while loop.
dijkstra_init(graph, start_node) ==
    [distances |-> DictSet([n \in DOMAIN graph |-> INF], start_node, 0),
     previous_nodes |-> [n \in DOMAIN graph |-> None],
     priority_queue |-> <<(<<0, start_node>>)>>,
     current_node |-> None,
     path |-> <<>>,
     pc |-> "loop",
     result |-> NoResult]

\* The pass with distance <= distances[neighbor] for the strict comparison.
relax_on_ties(q, graph, node, current_distance, neighbor, disabled_stations) ==
    IF neighbor \in disabled_stations THEN q
    ELSE LET distance == current_distance + graph[node][neighbor]
         IN IF ~FloatGreater(distance, q.distances[neighbor])
            THEN [q EXCEPT !.distances[neighbor] = distance,
                           !.previous_nodes[neighbor] = Some(node),
                           !.priority_queue = heappush(@, <<distance, neighbor>>)]
            ELSE q

\* One pass of the for loop over graph[current_node].items().
relax(q, graph, node, current_distance, neighbor, disabled_stations) ==
    IF neighbor \in disabled_stations THEN q
    ELSE LET distance == current_distance + graph[node][neighbor]
         IN IF FloatLess(distance, q.distances[neighbor])
            THEN [q EXCEPT !.distances[neighbor] = distance,
                           !.previous_nodes[neighbor] = Some(node),
                           !.priority_queue = heappush(@, <<distance, neighbor>>)]
            ELSE q

\* The for loop leaving at the first disabled neighbor (break for continue).
RECURSIVE relax_neighbors_break(_, _, _, _, _, _)
relax_neighbors_break(q, graph, node, current_distance, neighbors, disabled_stations) ==
    IF neighbors = <<>> \/ Head(neighbors) \in disabled_stations THEN q
    ELSE relax_neighbors_break(
             relax(q, graph, node, current_distance, Head(neighbors), disabled_stations),
             graph, node, current_distance, Tail(neighbors), disabled_stations)

RECURSIVE relax_neighbors(_, _, _, _, _, _)
relax_neighbors(q, graph, node, current_distance, neighbors, disabled_stations) ==
    IF neighbors = <<>> THEN q
    ELSE relax_neighbors(
             relax(q, graph, node, current_distance, Head(neighbors), disabled_stations),
             graph, node, current_distance, Tail(neighbors), disabled_stations)

\* One iteration of the while loop; the queue is not empty.
loop_iteration(q, graph, end_node, disabled_stations) ==
    LET item == heappop_item(q.priority_queue)
        current_distance == item[1]
        node == item[2]
        popped == [q EXCEPT !.priority_queue = heappop_rest(@),
                            !.current_node = Some(node)]
    IN IF is_disabled(node, disabled_stations) THEN popped
       ELSE IF FloatGreater(current_distance, q.distances[node]) THEN popped
       ELSE IF node = end_node THEN [popped EXCEPT !.path = <<>>, !.pc = "reconstruct"]
       ELSE relax_neighbors(popped, graph, node, current_distance,
                            IterationOrder(DOMAIN graph[node]), disabled_stations)

\* One iteration of the reconstruction loop; current_node is not None.
reconstruct_iteration(q) ==
    [q EXCEPT !.path = path_insert_front(@, q.current_node[1]),
              !.current_node = q.previous_nodes[q.current_node[1]]]

\* The two return statements; the locals die with the call.
Returned(time, path) ==
    [distances |-> EmptyDict, previous_nodes |-> EmptyDict, priority_queue |-> <<>>,
     current_node |-> None, path |-> <<>>, pc |-> "returned",
     result |-> [time |-> time, path |-> path]]

return_route(q, end_node) == Returned(Some(q.distances[end_node]), Some(q.path))

return_none == Returned(None, None)

\* The next step of a call that has not returned.
dijkstra_step(q, graph, end_node, disabled_stations) ==
    IF q.pc = "loop"
    THEN IF q.priority_queue = <<>> THEN return_none
         ELSE loop_iteration(q, graph, end_node, disabled_stations)
    ELSE IF q.current_node # None THEN reconstruct_iteration(q)
         ELSE return_route(q, end_node)

RECURSIVE run(_, _, _, _)
run(q, graph, end_node, disabled_stations) ==
    IF q.pc = "returned" THEN q.result
    ELSE run(dijkstra_step(q, graph, end_node, disabled_stations),
             graph, end_node, disabled_stations)

\* What dijkstra(graph, start_node, end_node, disabled_stations) returns.
dijkstra(graph, start_node, end_node, disabled_stations) ==
    run(dijkstra_init(graph, start_node), graph, end_node, disabled_stations)

\* ------------------------------------------------------------------- state

VARIABLES
    stations_data,                 \* main: the loaded dataset
    train_speed_kmph,              \* build_metro_graph's parameters
    line_change_penalty_minutes,
    phase,                         \* main: "loaded", then "built" or "failed"
    build_error,                   \* the exception build_metro_graph raised, or ""
    metro_graph,
    station_details,
    start_node,                    \* the arguments of the dijkstra call
    end_node,
    disabled_stations,
    distances,                     \* its locals
    previous_nodes,
    priority_queue,
    current_node,
    path,
    pc,                            \* "idle", "loop", "reconstruct", "returned"
    result                         \* what the call returned

vars == <<stations_data, train_speed_kmph, line_change_penalty_minutes, phase,
          build_error, metro_graph, station_details, start_node, end_node,
          disabled_stations, distances, previous_nodes, priority_queue,
          current_node, path, pc, result>>

buildVars == <<phase, build_error, metro_graph, station_details>>

inputVars == <<stations_data, train_speed_kmph, line_change_penalty_minutes>>

argVars == <<start_node, end_node, disabled_stations>>

Locals ==
    [distances |-> distances, previous_nodes |-> previous_nodes,
     priority_queue |-> priority_queue, current_node |-> current_node,
     path |-> path, pc |-> pc, result |-> result]

SetLocals(q) ==
    /\ distances' = q.distances
    /\ previous_nodes' = q.previous_nodes
    /\ priority_queue' = q.priority_queue
    /\ current_node' = q.current_node
    /\ path' = q.path
    /\ pc' = q.pc
    /\ result' = q.result

\* ---------------------------------------------------------------- datasets

Stations == {"W", "X", "Y", "Z"}

Pairs == {pr \in Stations \X Stations : Rank[pr[1]] < Rank[pr[2]]}

\* Offsets of the four stations' latitudes from 35.70 degrees, in hundredths
\* of a degree: evenly spaced, and with X and Y at the same place.
Layouts == {[W |-> 0, X |-> 1, Y |-> 2, Z |-> 3], [W |-> 0, X |-> 1, Y |-> 1, Z |-> 2]}

\* One line for all, and two lines with X as the interchange.
LinePatterns == {[W |-> {1}, X |-> {1}, Y |-> {1}, Z |-> {1}],
                 [W |-> {1}, X |-> {1, 2}, Y |-> {2}, Z |-> {2}]}

\* Four stations with coordinates; each relation of the set E of pairs is listed
\* on the record of its first station.
NetworkDatasets ==
    {[s \in Stations |->
        [latitude |-> Num(3570 + layout[s]), longitude |-> Num(5140),
         lines |-> lp[s], relations |-> {b \in Stations : <<s, b>> \in E}]] :
     E \in SUBSET Pairs, layout \in Layouts, lp \in LinePatterns}

\* Two station records of every shape: coordinates absent, null, numbers,
\* numeric strings or other strings; relations to each other, to themselves
\* and to Q, which is no station.
RecordShapes ==
    [latitude : {Absent, Null, BadStr, NumStr(3570)} \cup {Num(3570 + i) : i \in 0..MaxOffset},
     longitude : {Absent, Num(5140)},
     lines : SUBSET {1, 2},
     relations : SUBSET {"X", "Y", "Q"}]

RecordDatasets == [{"X", "Y"} -> RecordShapes]

Idle ==
    /\ start_node = None
    /\ end_node = None
    /\ disabled_stations = {}
    /\ distances = EmptyDict
    /\ previous_nodes = EmptyDict
    /\ priority_queue = <<>>
    /\ current_node = None
    /\ path = <<>>
    /\ pc = "idle"
    /\ result = NoResult

Loaded ==
    /\ phase = "loaded"
    /\ build_error = ""
    /\ metro_graph = EmptyDict
    /\ station_details = EmptyDict
    /\ Idle

\* main: the dataset is loaded and build_metro_graph is called with its defaults.
Init ==
    /\ stations_data \in NetworkDatasets
    /\ train_speed_kmph = TRAIN_SPEED_KMPH
    /\ line_change_penalty_minutes = LINE_CHANGE_PENALTY_MINUTES
    /\ Loaded

\* build_metro_graph on records of every shape, with and without a penalty.
BuildInit ==
    \/ /\ stations_data \in RecordDatasets
       /\ train_speed_kmph = TRAIN_SPEED_KMPH
       /\ line_change_penalty_minutes \in {0, LINE_CHANGE_PENALTY_MINUTES}
       /\ Loaded
    \/ Init

\* ------------------------------------------------------------------ actions

\* metro_graph, station_details = build_metro_graph(stations_data)
Build ==
    /\ phase = "loaded"
    /\ LET r == build_metro_graph(stations_data, train_speed_kmph,
                                  line_change_penalty_minutes)
       IN /\ phase' = IF r.raised = "" THEN "built" ELSE "failed"
          /\ build_error' = r.raised
          /\ metro_graph' = r.graph
          /\ station_details' = r.station_details
    /\ UNCHANGED <<inputVars, argVars, distances, previous_nodes, priority_queue,
                   current_node, path, pc, result>>

\* dijkstra(metro_graph, s, e, D) is entered: the lines before the loop.
Call(s, e, D) ==
    /\ phase = "built"
    /\ pc = "idle"
    /\ start_node' = Some(s)
    /\ end_node' = Some(e)
    /\ disabled_stations' = D
    /\ SetLocals(dijkstra_init(metro_graph, s))
    /\ UNCHANGED <<inputVars, buildVars>>

Popping == pc = "loop" /\ priority_queue # <<>>

\* The iteration with the disabled stations taken out of the graph as well.
IterateRemovingDisabled ==
    /\ SetLocals(loop_iteration(Locals, metro_graph, end_node[1], disabled_stations))
    /\ metro_graph' =
          [s \in (DOMAIN metro_graph) \ disabled_stations |->
              [n \in (DOMAIN metro_graph[s]) \ disabled_stations |-> metro_graph[s][n]]]
    /\ UNCHANGED <<inputVars, phase, build_error, station_details, argVars>>

\* One iteration of the while loop changes the locals and nothing else.
Iterate ==
    /\ SetLocals(loop_iteration(Locals, metro_graph, end_node[1], disabled_stations))
    /\ UNCHANGED <<inputVars, buildVars, argVars>>

\* The popped node is disabled: continue.
PopDisabled ==
    /\ Popping
    /\ heappop_item(priority_queue)[2] \in disabled_stations
    /\ Iterate

\* The popped entry is stale: continue.
PopStale ==
    /\ Popping
    /\ heappop_item(priority_queue)[2] \notin disabled_stations
    /\ FloatGreater(heappop_item(priority_queue)[1],
                    distances[heappop_item(priority_queue)[2]])
    /\ Iterate

\* The destination is popped: path = [] and the reconstruction starts.
PopEnd ==
    /\ Popping
    /\ heappop_item(priority_queue)[2] \notin disabled_stations
    /\ ~FloatGreater(heappop_item(priority_queue)[1],
                     distances[heappop_item(priority_queue)[2]])
    /\ heappop_item(priority_queue)[2] = end_node[1]
    /\ Iterate

\* Another node is popped: the for loop over its neighbors.
Expand ==
    /\ Popping
    /\ heappop_item(priority_queue)[2] \notin disabled_stations
    /\ ~FloatGreater(heappop_item(priority_queue)[1],
                     distances[heappop_item(priority_queue)[2]])
    /\ heappop_item(priority_queue)[2] # end_node[1]
    /\ Iterate

\* while current_node is not None: one iteration.
Reconstruct ==
    /\ pc = "reconstruct"
    /\ current_node # None
    /\ SetLocals(reconstruct_iteration(Locals))
    /\ UNCHANGED <<inputVars, buildVars, argVars>>

\* return distances[end_node], path
ReturnRoute ==
    /\ pc = "reconstruct"
    /\ current_node = None
    /\ SetLocals(return_route(Locals, end_node[1]))
    /\ UNCHANGED <<inputVars, buildVars, argVars>>

\* The queue is empty: return None, None
ReturnNone ==
    /\ pc = "loop"
    /\ priority_queue = <<>>
    /\ SetLocals(return_none)
    /\ UNCHANGED <<inputVars, buildVars, argVars>>

\* main: the result is reported and the next route is asked for.
Again ==
    /\ pc = "returned"
    /\ start_node' = None
    /\ end_node' = None
    /\ disabled_stations' = {}
    /\ SetLocals([Returned(None, None) EXCEPT !.pc = "idle"])
    /\ UNCHANGED <<inputVars, buildVars>>

Next ==
    \/ Build
    \/ \E s \in DOMAIN metro_graph, e \in DOMAIN metro_graph :
         \E D \in {d \in SUBSET DOMAIN metro_graph : Cardinality(d) <= MaxDisabled} :
            Call(s, e, D)
    \/ PopDisabled
    \/ PopStale
    \/ PopEnd
    \/ Expand
    \/ Reconstruct
    \/ ReturnRoute
    \/ ReturnNone
    \/ Again

Spec == Init /\ [][Next]_vars

BuildNext == Build

BuildSpec == BuildInit /\ [][BuildNext]_vars

\* ------------------------------------------------- reference definitions

\* The simple paths of the graph that extend p to e and avoid D.
RECURSIVE PathsFrom(_, _, _, _)
PathsFrom(graph, p, e, D) ==
    LET last == p[Len(p)]
    IN IF last = e THEN {p}
       ELSE UNION {PathsFrom(graph, Append(p, n), e, D) :
                   n \in {m \in DOMAIN graph[last] : m \notin D /\ m \notin Range(p)}}

\* The simple paths from s to e in the graph without the stations of D.
SimplePaths(graph, s, e, D) ==
    IF s \in D \/ e \in D THEN {} ELSE PathsFrom(graph, <<s>>, e, D)

IsPath(graph, p) ==
    \A i \in 1..(Len(p) - 1) : p[i + 1] \in DOMAIN graph[p[i]]

RECURSIVE PathWeight(_, _)
PathWeight(graph, p) ==
    IF Len(p) <= 1 THEN 0 ELSE graph[p[1]][p[2]] + PathWeight(graph, Tail(p))

RouteReturned == pc = "returned" /\ result.time # None

\* The travel-time term of the edge a-b, from the records of the dataset.
TravelTerm(a, b) ==
    travel_time(haversine_distance(stations_data[a].latitude.val,
                                   stations_data[a].longitude.val,
                                   stations_data[b].latitude.val,
                                   stations_data[b].longitude.val),
                train_speed_kmph)

ShareLine(a, b) == \E l \in stations_data[a].lines : l \in stations_data[b].lines

NoCoordinates(s) ==
    stations_data[s].latitude.kind = "absent" \/ stations_data[s].longitude.kind = "absent"

\* ------------------------------------------------------------------ claims

\* C1: a returned route's time is the sum of the edge weights along its path,
\* the path avoids the disabled stations, and no path from start to end that
\* avoids the disabled stations weighs less.
C1_MinimumRoute ==
    RouteReturned =>
        LET p == result.path[1]
            t == result.time[1]
            all == SimplePaths(metro_graph, start_node[1], end_node[1], disabled_stations)
        IN /\ IsPath(metro_graph, p)
           /\ t = PathWeight(metro_graph, p)
           /\ p \in all
           /\ \A r \in all : PathWeight(metro_graph, r) >= t

\* A route of two edges is returned although the direct edge exists and weighs
\* more, with a station disabled.
C1_Witness ==
    /\ RouteReturned
    /\ Len(result.path[1]) = 3
    /\ disabled_stations # {}
    /\ end_node[1] \in DOMAIN metro_graph[start_node[1]]
    /\ metro_graph[start_node[1]][end_node[1]] > result.time[1]

\* C2: a returned path starts with the start station, ends with the end
\* station, and each consecutive pair is an edge of the graph.
C2_PathEndsAndEdges ==
    RouteReturned =>
        LET p == result.path[1]
        IN /\ Len(p) >= 1
           /\ p[1] = start_node[1]
           /\ p[Len(p)] = end_node[1]
           /\ \A i \in 1..(Len(p) - 1) : p[i + 1] \in DOMAIN metro_graph[p[i]]

C2_Witness == RouteReturned /\ Len(result.path[1]) = 4

\* C3: when the end cannot be reached from the start once the disabled stations
\* are removed (the start or the end disabled included), the call returns
\* (None, None).
C3_NoPathFound ==
    (pc = "returned"
     /\ SimplePaths(metro_graph, start_node[1], end_node[1], disabled_stations) = {})
        => result = NoResult

\* The start is disabled and the end is its enabled neighbor.
C3_Witness ==
    /\ pc = "returned"
    /\ start_node[1] \in disabled_stations
    /\ end_node[1] \notin disabled_stations
    /\ end_node[1] \in DOMAIN metro_graph[start_node[1]]
    /\ result = NoResult

\* C4: the built graph is symmetric: graph[A][B] = w makes graph[B][A] = w.
C4_Symmetric ==
    phase = "built" =>
        \A a \in DOMAIN metro_graph : \A b \in DOMAIN metro_graph[a] :
            /\ b \in DOMAIN metro_graph
            /\ a \in DOMAIN metro_graph[b]
            /\ metro_graph[b][a] = metro_graph[a][b]

\* The relation X-Y is listed on X's record only and the edge has a weight.
C4_Witness ==
    /\ phase = "built"
    /\ DOMAIN stations_data = {"X", "Y"}
    /\ "Y" \in stations_data["X"].relations
    /\ "X" \notin stations_data["Y"].relations
    /\ "Y" \in DOMAIN metro_graph["X"]
    /\ metro_graph["X"]["Y"] > 0

\* C5: every station of the dataset is a key of the graph and nothing else is;
\* a station without coordinates has no neighbors and is nobody's neighbor; a
\* relation to an unknown station makes no edge.
C5_NodesAndIsolation ==
    phase = "built" =>
        /\ DOMAIN metro_graph = DOMAIN stations_data
        /\ \A s \in DOMAIN stations_data :
              /\ DOMAIN metro_graph[s] \subseteq DOMAIN stations_data
              /\ NoCoordinates(s) =>
                    /\ metro_graph[s] = EmptyDict
                    /\ \A t \in DOMAIN metro_graph : s \notin DOMAIN metro_graph[t]

\* X has no latitude and lists Y; Y has coordinates and lists X and the unknown Q.
C5_Witness ==
    /\ phase = "built"
    /\ DOMAIN stations_data = {"X", "Y"}
    /\ stations_data["X"].latitude.kind = "absent"
    /\ "Y" \in stations_data["X"].relations
    /\ ~NoCoordinates("Y")
    /\ {"X", "Q"} \subseteq stations_data["Y"].relations

\* C6: when every coordinate field is absent, null or convertible to a number,
\* the build completes, every station is a node, and a station with an absent
\* or null field has no coordinates.  (The code raises on null.)
C6_NullIsMissing ==
    (phase # "loaded"
     /\ \A s \in DOMAIN stations_data :
           /\ stations_data[s].latitude.kind # "badstr"
           /\ stations_data[s].longitude.kind # "badstr")
        => /\ phase = "built"
           /\ \A s \in DOMAIN stations_data :
                 /\ s \in DOMAIN metro_graph
                 /\ stations_data[s].latitude.kind \in {"absent", "null"}
                       => station_details[s].latitude = None

\* C7: an edge weighs the travel-time term when its stations share a line and
\* the term plus the penalty when they share none; it is never below the term
\* and never negative.
C7_EdgeWeight ==
    phase = "built" =>
        \A a \in DOMAIN metro_graph : \A b \in DOMAIN metro_graph[a] :
            /\ metro_graph[a][b] =
                  TravelTerm(a, b)
                  + (IF ShareLine(a, b) THEN 0 ELSE line_change_penalty_minutes * 1000)
            /\ metro_graph[a][b] >= TravelTerm(a, b)
            /\ TravelTerm(a, b) >= 0

\* X and Y list each other, are apart, share a line without having the same
\* lines, and the penalty is not zero.
C7_Witness ==
    /\ phase = "built"
    /\ DOMAIN stations_data = {"X", "Y"}
    /\ line_change_penalty_minutes > 0
    /\ "Y" \in stations_data["X"].relations
    /\ "X" \in stations_data["Y"].relations
    /\ "Y" \in DOMAIN metro_graph["X"]
    /\ ShareLine("X", "Y")
    /\ stations_data["X"].lines # stations_data["Y"].lines
    /\ TravelTerm("X", "Y") > 0

\* x lies on no path from start to end once the stations of D are removed.
OnNoPath(x, D) ==
    \A p \in SimplePaths(metro_graph, start_node[1], end_node[1], D) : x \notin Range(p)

\* C8: a disabled station that lies on no path from start to end (in the graph
\* without the other disabled stations, so also in the whole graph) does not
\* change the result: the call returns what it returns without it disabled.
C8_IrrelevantDisabled ==
    pc = "returned" =>
        \A x \in disabled_stations :
            OnNoPath(x, disabled_stations \ {x}) =>
                result = dijkstra(metro_graph, start_node[1], end_node[1],
                                  disabled_stations \ {x})

\* A route is returned, and a disabled station on no path from start to end is
\* a neighbor of a station of the route.
C8_Witness ==
    /\ RouteReturned
    /\ \E x \in disabled_stations :
          /\ OnNoPath(x, disabled_stations \ {x})
          /\ \E n \in Range(result.path[1]) : x \in DOMAIN metro_graph[n]

\* C9: no step of a call, and no step after the build, changes the graph, which
\* stays what build_metro_graph returned; no step of a call changes the
\* disabled set.
C9_GraphUnchanged ==
    [][/\ phase = "built" =>
             /\ metro_graph' = metro_graph
             /\ metro_graph' = build_metro_graph(stations_data, train_speed_kmph,
                                                 line_change_penalty_minutes).graph
       /\ pc \in {"loop", "reconstruct"} => disabled_stations' = disabled_stations]_vars

\* A route is returned through a station that has a disabled neighbor.
C9_Witness ==
    /\ RouteReturned
    /\ Len(result.path[1]) >= 2
    /\ \E d \in disabled_stations : d \in DOMAIN metro_graph[start_node[1]]

\* The distinct weights of the simple paths from the start to n that avoid the
\* disabled stations and weigh less than the distance recorded for n: the
\* values the record of n can still take.
Improvements(n) ==
    {w \in {PathWeight(metro_graph, p) :
              p \in SimplePaths(metro_graph, start_node[1], n, disabled_stations)} :
        FloatLess(w, distances[n])}

\* The number of nodes from node back to the start along previous_nodes.
RECURSIVE ChainLength(_)
ChainLength(node) ==
    IF node = None THEN 0 ELSE 1 + ChainLength(previous_nodes[node[1]])

\* The improvements still possible over the nodes of S.
RECURSIVE Pending(_)
Pending(S) ==
    IF S = {} THEN 0
    ELSE LET n == CHOOSE x \in S : TRUE
         IN Cardinality(Improvements(n)) + Pending(S \ {n})

\* What is left of a call: in the loop, the entries to pop and twice the
\* improvements to come (each pushes one entry), above anything the
\* reconstruction needs; in the reconstruction, the nodes still to insert.
Measure ==
    CASE pc = "loop" ->
            Cardinality(DOMAIN metro_graph) + 2 + Len(priority_queue)
            + 2 * Pending(DOMAIN metro_graph)
      [] pc = "reconstruct" -> 1 + ChainLength(current_node)
      [] OTHER -> 0

Running == pc \in {"loop", "reconstruct"}

\* C10: every call terminates: every step of a running call lowers Measure, a
\* natural number, so that a call returns after at most Measure steps.  A push
\* lowers it because it happens only on a strict improvement; a stale or
\* disabled pop lowers it because nothing is pushed.
C10_Terminates == [][Running => (Measure' < Measure /\ Measure' >= 0)]_vars

\* The queue holds a stale entry: its node has a smaller recorded distance.
C10_Witness ==
    /\ pc = "loop"
    /\ \E i \in DOMAIN priority_queue :
          FloatGreater(priority_queue[i][1], distances[priority_queue[i][2]])

====
